---- MODULE Spec2Model ----
(***************************************************************************)
(* Coordination layer of the pokakus firmware (ESP32, embassy):            *)
(*   led.rs      status signal LED_STATE and the render loop led_task      *)
(*   led_op.rs   the outcome guard Status                                  *)
(*   button.rs   task_button_clicks and the click mailbox BUTTON_CLICKS    *)
(*   telegram.rs send_telegram_message, MESSAGES_QUEUE, the sender task    *)
(*   wifi.rs     task_keep_wifi_client_up, the connection supervisor, and  *)
(*               task_report_network_state, the network-state reporter     *)
(*                                                                         *)
(* Tasks run on one cooperative executor: a task step is everything the    *)
(* task executes from one suspension point (.await that returns Pending)   *)
(* to the next, so each action below is one such poll.  Time is in ms.     *)
(***************************************************************************)
EXTENDS Integers, Sequences, FiniteSets, TLC

VARIABLES
    \* ---- led.rs
    LED_STATE,          \* the Signal's slot: a LedState, or None when empty
    current_state,      \* led_task local
    persistent_state,   \* led_task local
    pattern,            \* led_task locals <<on_duration, off_duration>>
    led_pc,             \* "init" | "blink" (select at led.rs:103) | "hold" (Timer at led.rs:87)
    phase,              \* index into pattern: 0 = on-phase, 1 = off-phase
    led,                \* ActiveLowLed: TRUE = on
    elapsed,            \* ms waited since delay_start (nominal timer durations)
    late,               \* ms by which timers of this hold woke late so far
    led_log,            \* the defmt::info! lines of led_task's last step
    last_set_persistent,\* history: last persistent status passed to set_led_state
    last_write,         \* history: last status passed to LED_STATE.signal, or None
    writes_unread,      \* history: LED_STATE.signal calls since led_task's last read
    \* ---- led_op.rs
    guard,              \* "none" | "live" | "done": the one Status value in scope
    guard_end,          \* how it ended: "none" | "success" | "failure" | "drop"
    guard_writes,       \* history: statuses this guard passed to set_led_state
    \* ---- button.rs
    button_level,       \* raw input: "high" (released) | "low" (pressed)
    btn_pc,             \* "init" (spawned, not polled yet) |
                        \* "wait_for_falling_edge" | "settle" |
                        \* "rearm" (is_low() was false, not listening yet) |
                        \* "sent" (try_send done, not waiting yet) |
                        \* "wait_for_high"
    btn_timer,          \* ms left of Timer::after_millis(20)
    edge_seen,          \* falling-edge interrupt fired while the task listened
    high_seen,          \* high-level interrupt fired while the task waited for it
    BUTTON_CLICKS,      \* the channel's content, a sequence of unit events
    low_for,            \* history: ms the input has been low since its falling edge
    pulse_detected,     \* history: the task listened when the current low pulse began
    press_clicks,       \* history: try_send calls since the last falling edge
    clicks_unread,      \* history: try_send calls since the last receive
    clicked,            \* history: try_send has been called
    pulses,             \* history: falling edges of the input so far
    all_short,          \* history: every low pulse so far was shorter than 20 ms
    all_alone,          \* history: all_short, and no falling edge came between
                        \* a detected falling edge and the sample taken for it
    \* ---- bin/main.rs
    main_pc,            \* led_task of main.rs: "wait_for_button_click" | "blink"
    main_led,           \* level of the output on GPIO8: "High" | "Low"
    blink_i,            \* iterations of `for _ in 0..6` begun since the click
    main_timer,         \* ms left of Timer::after(100 ms)
    \* ---- telegram.rs
    MESSAGES_QUEUE,     \* the channel's content, oldest first
    sender_pc,          \* "receive" | "wait_config_up" | "sending"
    message,            \* task_telegram_sender local: the message it holds, or NoMessage
    config_up,          \* stack.is_config_up()
    calls,              \* send_telegram_message calls so far; call n carries text n
    panicked,           \* an unwrap() panicked: the firmware has halted
    error_logs,         \* texts logged with "Queue full: cannot send message"
    accepted,           \* history: texts placed in the mailbox, in order
    dequeued,           \* history: texts the sender received, in order
    attempts,           \* history: texts handed to telegram_send_message, in order
    outcomes,           \* history: texts whose outcome was declared, in order
    last_sent,          \* history: how the latest send ended, and the status declared
    ever_up,            \* history: the stack has had its configuration up
    \* ---- wifi.rs
    sta_state,          \* wifi::sta_state(), kept by the radio driver
    sup_pc,             \* "report" | "check" | "wait_for_event" |
                        \* "wait_disconnected" | "cooldown" |
                        \* "starting" | "connecting" | "backoff"
    sup_timer,          \* s left of the supervisor's Timer::after
    disconnect_event,   \* a StaDisconnected event is pending for the controller
    reported,           \* history: the status set at the top of this iteration
    last_connect,       \* history: "none" | "ok" | "err", how the latest connect ended
    always_failed,      \* history: no connect has succeeded so far
    since_connect,      \* history: s since the latest call of connect_async
    since_lost,         \* history: s since the link was last lost
    connects,           \* history: calls of connect_async so far
    start_failure,      \* history: "none" | "set_config" | "start", which call failed
    rep_pc              \* task_report_network_state: "start" | "wait_config_up" |
                        \* "wait_config_down"

led_vars == <<LED_STATE, current_state, persistent_state, pattern, led_pc, phase,
              led, elapsed, late, led_log, last_set_persistent, last_write,
              writes_unread>>
signal_vars == <<LED_STATE, last_set_persistent, last_write, writes_unread>>
led_task_vars == <<current_state, persistent_state, pattern, led_pc, phase, led,
                   elapsed, late, led_log>>
guard_vars == <<guard, guard_end, guard_writes>>
button_vars == <<button_level, btn_pc, btn_timer, edge_seen, high_seen,
                 BUTTON_CLICKS, low_for, pulse_detected, press_clicks,
                 clicks_unread, clicked, pulses, all_short, all_alone>>
main_vars == <<main_pc, main_led, blink_i, main_timer>>
telegram_vars == <<MESSAGES_QUEUE, sender_pc, message, config_up, calls, panicked,
                   error_logs, accepted, dequeued, attempts, outcomes, last_sent,
                   ever_up>>
telegram_task_vars == <<MESSAGES_QUEUE, sender_pc, message, config_up, calls,
                        error_logs, accepted, dequeued, attempts, outcomes,
                        last_sent, ever_up>>
wifi_vars == <<sta_state, sup_pc, sup_timer, disconnect_event, reported,
               last_connect, always_failed, since_connect, since_lost, connects,
               start_failure>>
reporter_vars == <<rep_pc>>
vars == <<led_vars, guard_vars, button_vars, main_vars, telegram_vars, wifi_vars,
          reporter_vars>>

\* What the steps of one component leave alone
not_led == <<button_vars, main_vars, telegram_vars, wifi_vars, reporter_vars>>
not_main == <<led_vars, guard_vars, telegram_vars, wifi_vars, reporter_vars>>
not_button == <<main_vars, not_main>>
not_telegram == <<led_task_vars, button_vars, main_vars, wifi_vars, reporter_vars>>
not_wifi == <<led_task_vars, guard_vars, button_vars, main_vars, telegram_task_vars,
              reporter_vars>>
not_reporter == <<led_task_vars, guard_vars, button_vars, main_vars, telegram_vars,
                  wifi_vars>>

----------------------------------------------------------------------------
(* led.rs *)

LedState == {"PresenceBlink", "PatientBlink", "RapidBlink", "Success", "Failure",
             "ViolentBlink"}
None == "None"
Persistent == {"PresenceBlink", "PatientBlink"}
Outcome == {"Success", "Failure"}

\* Late wake-ups of the hold's timers: each wait may overrun by LateStep ms,
\* MaxLate ms in all per hold.
LateStep == 50
MaxLate == 100

on_duration(s) ==
    CASE s = "PresenceBlink" -> 30
      [] s = "PatientBlink"  -> 500
      [] s = "RapidBlink"    -> 100
      [] s = "ViolentBlink"  -> 30
      [] s = "Success"       -> 3000
      [] s = "Failure"       -> 30

off_duration(s) ==
    CASE s = "PresenceBlink" -> 3000
      [] s = "PatientBlink"  -> 1000
      [] s = "RapidBlink"    -> 100
      [] s = "ViolentBlink"  -> 70
      [] s = "Success"       -> 0
      [] s = "Failure"       -> 70

is_persistent_any(s) == TRUE
is_persistent(s) == s \in {"PresenceBlink", "PatientBlink"}

\* Some(Duration::from_secs(3)) for Success and Failure, None (here -1) otherwise
hold_then_revert(s) == IF s \in {"Success", "Failure"} THEN 3000 ELSE -1

PatternOf(s) == <<on_duration(s), off_duration(s)>>

\* The history counter of unread writes stops counting here
MaxUnread == 2

\* Signal::signal: the slot is overwritten
signal_keeping_unread(slot, s) == IF slot = None THEN s ELSE slot
signal(slot, s) == s

\* One more call of LED_STATE.signal since the last read
one_more(n) == IF n < MaxUnread THEN n + 1 ELSE n

\* The state led_task reverts to when a hold ends
revert_state_stuck(cur, pers) == cur
revert_state(cur, pers) == pers

\* defmt::info! lines of led_task
Reverted(s) == [kind |-> "reverted", state |-> s]
Changed(s) == [kind |-> "changed", state |-> s]

\* The step whose log this is took a value from LED_STATE (led.rs:105-108)
HasRead(log) == \E i \in 1..Len(log) : log[i].kind = "changed"

\* led_task suspended at the Timer of the hold or at the select of the blink
Suspended(cur, pers, pat, pc, ph, sig, log) ==
    [cur |-> cur, pers |-> pers, pat |-> pat, pc |-> pc, phase |-> ph,
     led |-> (ph = 0), sig |-> sig, log |-> log]

RECURSIVE LoopTop(_, _, _, _)
RECURSIVE BlinkFrom(_, _, _, _, _, _)

\* One iteration of `loop` from its top, run until the task suspends.
LoopTop(cur, pers, sig, log) ==
    LET pers2 == IF is_persistent(cur) THEN cur ELSE pers
    IN  IF hold_then_revert(cur) >= 0
        THEN Suspended(cur, pers2, PatternOf(cur), "hold", 0, sig, log)
        ELSE BlinkFrom(0, cur, pers2, PatternOf(cur), sig, log)

\* What follows phase ph once its select has returned with current_state = cur:
\* the for-loop has no break, so phase 0 is followed by phase 1 of the same
\* pattern whichever future won
AfterPhase(ph, cur, pers, pat, sig, log) ==
    IF ph = 0
    THEN BlinkFrom(1, cur, pers, pat, sig, log)
    ELSE LoopTop(cur, pers, sig, log)

\* Phase ph of the interruptible for-loop: led.set, then the first poll of
\* select(Timer::after(dur), LED_STATE.wait()).  A fresh Timer is Pending on its
\* first poll, so a value already in the slot wins at once.
BlinkFrom(ph, cur, pers, pat, sig, log) ==
    IF sig = None
    THEN Suspended(cur, pers, pat, "blink", ph, sig, log)
    ELSE AfterPhase(ph, sig, pers, pat, None, Append(log, Changed(sig)))

LedResume(r) ==
    /\ current_state' = r.cur
    /\ persistent_state' = r.pers
    /\ pattern' = r.pat
    /\ led_pc' = r.pc
    /\ phase' = r.phase
    /\ led' = r.led
    /\ LED_STATE' = r.sig
    /\ led_log' = r.log
    /\ elapsed' = 0
    /\ late' = 0
    /\ writes_unread' = IF HasRead(r.log) THEN 0 ELSE writes_unread
    /\ UNCHANGED last_write

\* led_task's first poll
LedStart ==
    /\ led_pc = "init"
    /\ LedResume(LoopTop("PatientBlink", "PatientBlink", LED_STATE, <<>>))
    /\ UNCHANGED <<last_set_persistent, guard_vars, not_led>>

\* select returned First: the phase's timer expired (it is polled first)
LedTimer ==
    /\ led_pc = "blink"
    /\ LedResume(AfterPhase(phase, current_state, persistent_state, pattern,
                            LED_STATE, <<>>))
    /\ UNCHANGED <<last_set_persistent, guard_vars, not_led>>

\* select returned Second(new_state): the signal was set before the timer expired
LedSignal ==
    /\ led_pc = "blink"
    /\ LED_STATE # None
    /\ LedResume(AfterPhase(phase, LED_STATE, persistent_state, pattern, None,
                            <<Changed(LED_STATE)>>))
    /\ UNCHANGED <<last_set_persistent, guard_vars, not_led>>

\* A Timer::after(dur) of the hold expired
LedHoldTimer ==
    /\ led_pc = "hold"
    /\ \E d \in {0, LateStep} :
        /\ late + d <= MaxLate
        /\ LET e == elapsed + pattern[phase + 1]
               l == late + d
           IN  IF phase = 0 \/ e + l < hold_then_revert(current_state)
               THEN /\ phase' = 1 - phase
                    /\ led' = (phase = 1)
                    /\ elapsed' = e
                    /\ late' = l
                    /\ led_log' = <<>>
                    /\ UNCHANGED <<LED_STATE, current_state, persistent_state,
                                   pattern, led_pc, last_write, writes_unread>>
               ELSE LET cur == revert_state(current_state, persistent_state)
                    IN  LedResume(LoopTop(cur, persistent_state, LED_STATE,
                                          <<Reverted(cur)>>))
    /\ UNCHANGED <<last_set_persistent, guard_vars, not_led>>

\* set_led_state(state), from any task
set_led_state(s) ==
    /\ LED_STATE' = signal(LED_STATE, s)
    /\ last_set_persistent' = IF s \in Persistent THEN s ELSE last_set_persistent
    /\ last_write' = s
    /\ writes_unread' = one_more(writes_unread)

SetLedState ==
    /\ \E s \in LedState : set_led_state(s)
    /\ UNCHANGED <<led_task_vars, guard_vars, not_led>>

----------------------------------------------------------------------------
(* led_op.rs *)

\* Status::set_result(self, state): set_led_state(state), then mem::forget(self),
\* so Drop::drop does not run when `self` goes out of scope.  The statuses set.
set_result_without_forget(state) == <<state, "Failure">>
set_result(state) == <<state>>

\* Drop::drop
drop == <<"Failure">>

\* The guard in scope, with the signal it writes to
GuardNow ==
    [st |-> guard, end |-> guard_end, writes |-> guard_writes, sig |-> LED_STATE,
     last |-> last_write, unread |-> writes_unread]

\* Status::new: set_led_state(RapidBlink)
Status_new(g) ==
    [st |-> "live", end |-> "none", writes |-> <<"RapidBlink">>,
     sig |-> signal(g.sig, "RapidBlink"),
     last |-> "RapidBlink", unread |-> one_more(g.unread)]

\* The guard ends: `how` consumed it, calling set_led_state on each of ws in order
Status_end(g, how, ws) ==
    [st |-> "done", end |-> how, writes |-> g.writes \o ws,
     sig |-> signal(signal(g.sig, ws[1]), ws[Len(ws)]),
     last |-> ws[Len(ws)], unread |-> one_more(g.unread)]

\* The guard's statuses are never persistent ones
SetGuard(g) ==
    /\ guard' = g.st
    /\ guard_end' = g.end
    /\ guard_writes' = g.writes
    /\ LED_STATE' = g.sig
    /\ last_write' = g.last
    /\ writes_unread' = g.unread
    /\ UNCHANGED last_set_persistent

\* A task creates a guard, and later calls success(), calls failure(), or lets it
\* go out of scope
StatusNew ==
    /\ guard \in {"none", "done"}
    /\ SetGuard(Status_new(GuardNow))
    /\ UNCHANGED <<led_task_vars, not_led>>

StatusSuccess ==
    /\ guard = "live"
    /\ SetGuard(Status_end(GuardNow, "success", set_result("Success")))
    /\ UNCHANGED <<led_task_vars, not_led>>

StatusFailure ==
    /\ guard = "live"
    /\ SetGuard(Status_end(GuardNow, "failure", set_result("Failure")))
    /\ UNCHANGED <<led_task_vars, not_led>>

StatusDrop ==
    /\ guard = "live"
    /\ SetGuard(Status_end(GuardNow, "drop", drop))
    /\ UNCHANGED <<led_task_vars, not_led>>

----------------------------------------------------------------------------
(* button.rs *)

\* Timer::after_millis(20)
DEBOUNCE_MS == 20
\* Channel<_, (), 1>
BUTTON_CLICKS_CAP == 1

\* The history counter of the supervisor stops counting here
MaxCount == 3
\* The history counters of the button stop counting here
MaxClicks == 2

Min(a, b) == IF a < b THEN a ELSE b

\* Channel::try_send(()): Err(Full) when the channel holds its capacity
try_send_unbounded(q) == Append(q, "()")
try_send(q) == IF Len(q) < BUTTON_CLICKS_CAP THEN Append(q, "()") ELSE q

\* The `if` after the settle timer: button.is_low()
is_low_ignored(level) == TRUE
is_low(level) == level = "low"

\* After the try_send: on to button.wait_for_high(), with no timer running
AfterClick == [pc |-> "sent", timer |-> 0]

\* task_button_clicks is ready to be polled: it was spawned and never polled,
\* or the interrupt or timer it awaits has fired; or it is running, between
\* reading the input and its next await.  The executor polls it when it gets
\* to it; the input and the clock move on in the meantime.
BtnRunnable ==
    \/ btn_pc \in {"init", "rearm", "sent"}
    \/ btn_pc = "wait_for_falling_edge" /\ edge_seen
    \/ btn_pc = "settle" /\ btn_timer = 0
    \/ btn_pc = "wait_for_high" /\ high_seen

button_task_vars == <<btn_pc, btn_timer, edge_seen, high_seen, BUTTON_CLICKS,
                      press_clicks, clicks_unread, clicked>>

\* A falling edge the task detected has not been followed by its sample yet
SamplePending ==
    \/ btn_pc = "wait_for_falling_edge" /\ edge_seen
    \/ btn_pc = "settle"

\* The raw input goes high -> low; the edge interrupt fires if the task listens
InputFalls ==
    /\ button_level = "high"
    /\ button_level' = "low"
    /\ edge_seen' = (btn_pc = "wait_for_falling_edge")
    /\ pulse_detected' = (btn_pc = "wait_for_falling_edge")
    /\ low_for' = 0
    /\ press_clicks' = 0
    /\ all_alone' = (all_alone /\ ~SamplePending)
    /\ pulses' = Min(pulses + 1, MaxClicks)
    /\ UNCHANGED <<btn_pc, btn_timer, high_seen, BUTTON_CLICKS, clicks_unread,
                   clicked, all_short, not_button>>

\* The raw input goes low -> high; the level interrupt fires if the task waits
\* for the release
InputRises ==
    /\ button_level = "low"
    /\ button_level' = "high"
    /\ high_seen' = (btn_pc = "wait_for_high")
    /\ UNCHANGED <<btn_pc, btn_timer, edge_seen, BUTTON_CLICKS, press_clicks,
                   clicks_unread, clicked, low_for, pulse_detected, pulses,
                   all_short, all_alone, not_button>>

\* 1 ms passes
Tick ==
    /\ btn_timer' = IF btn_timer > 0 THEN btn_timer - 1 ELSE 0
    /\ main_timer' = IF main_timer > 0 THEN main_timer - 1 ELSE 0
    /\ low_for' = IF button_level = "low" THEN Min(low_for + 1, DEBOUNCE_MS + 1)
                  ELSE low_for
    /\ LET long == button_level = "low" /\ low_for + 1 >= DEBOUNCE_MS
       IN  /\ all_short' = (all_short /\ ~long)
           /\ all_alone' = (all_alone /\ ~long)
    /\ UNCHANGED <<button_level, btn_pc, edge_seen, high_seen, BUTTON_CLICKS,
                   pulse_detected, press_clicks, clicks_unread, clicked,
                   pulses, main_pc, main_led, blink_i, not_main>>

\* First poll of the spawned task: button.wait_for_falling_edge() starts to
\* listen, whatever the level of the input is by then
BtnStart ==
    /\ btn_pc = "init"
    /\ btn_pc' = "wait_for_falling_edge"
    /\ edge_seen' = FALSE
    /\ UNCHANGED <<button_level, btn_timer, high_seen, BUTTON_CLICKS, low_for,
                   pulse_detected, press_clicks, clicks_unread, clicked,
                   pulses, all_short, all_alone, not_button>>

\* button.wait_for_falling_edge() returned; Timer::after_millis(20) is started
BtnEdge ==
    /\ btn_pc = "wait_for_falling_edge"
    /\ edge_seen
    /\ edge_seen' = FALSE
    /\ btn_pc' = "settle"
    /\ btn_timer' = DEBOUNCE_MS
    /\ UNCHANGED <<button_level, high_seen, BUTTON_CLICKS, low_for, pulse_detected,
                   press_clicks, clicks_unread, clicked, pulses, all_short,
                   all_alone, not_button>>

\* The settle timer expired and the task is polled: button.is_low() reads the
\* input as it is now; if low, try_send one event.  The input, which is not
\* in step with the task, can change before the task's next await
BtnSample ==
    /\ btn_pc = "settle"
    /\ btn_timer = 0
    /\ IF is_low(button_level)
       THEN /\ BUTTON_CLICKS' = try_send(BUTTON_CLICKS)
            /\ press_clicks' = Min(press_clicks + 1, MaxClicks)
            /\ clicks_unread' = Min(clicks_unread + 1, MaxClicks)
            /\ clicked' = TRUE
            /\ btn_pc' = AfterClick.pc
            /\ btn_timer' = AfterClick.timer
       ELSE /\ btn_pc' = "rearm"
            /\ UNCHANGED <<BUTTON_CLICKS, btn_timer, press_clicks, clicks_unread,
                           clicked>>
    /\ UNCHANGED <<button_level, edge_seen, high_seen, low_for, pulse_detected,
                   pulses, all_short, all_alone, not_button>>

\* After a sample that read high: back at the top of the loop,
\* button.wait_for_falling_edge() starts to listen, whatever the level of the
\* input is by then
BtnRearm ==
    /\ btn_pc = "rearm"
    /\ btn_pc' = "wait_for_falling_edge"
    /\ edge_seen' = FALSE
    /\ UNCHANGED <<button_level, btn_timer, high_seen, BUTTON_CLICKS, low_for,
                   pulse_detected, press_clicks, clicks_unread, clicked,
                   pulses, all_short, all_alone, not_button>>

\* After the try_send: button.wait_for_high() starts to wait; the level
\* interrupt fires at once if the input is high by then
BtnWaitForHigh ==
    /\ btn_pc = "sent"
    /\ btn_pc' = "wait_for_high"
    /\ high_seen' = (button_level = "high")
    /\ UNCHANGED <<button_level, btn_timer, edge_seen, BUTTON_CLICKS, low_for,
                   pulse_detected, press_clicks, clicks_unread, clicked,
                   pulses, all_short, all_alone, not_button>>

\* button.wait_for_high() returned: back to the top of the loop, where
\* wait_for_falling_edge() starts to listen, whatever the level is by then
BtnReleased ==
    /\ btn_pc = "wait_for_high"
    /\ high_seen
    /\ high_seen' = FALSE
    /\ edge_seen' = FALSE
    /\ btn_pc' = "wait_for_falling_edge"
    /\ UNCHANGED <<button_level, btn_timer, BUTTON_CLICKS, low_for, pulse_detected,
                   press_clicks, clicks_unread, clicked, pulses, all_short,
                   all_alone, not_button>>

----------------------------------------------------------------------------
(* bin/main.rs *)

\* Timer::after(Duration::from_millis(100))
BLINK_MS == 100
\* for _ in 0..6
BLINK_TOGGLES == 6

\* led.toggle()
toggle(level) == IF level = "High" THEN "Low" ELSE "High"

\* led_task of main.rs at wait_for_button_click().await with the click mailbox
\* `q`: with an event there, BUTTON_CLICKS.receive() takes it and the first
\* iteration of the for loop toggles the output and starts its timer; with
\* none the task suspends
AwaitClick(q) ==
    IF q # <<>>
    THEN /\ BUTTON_CLICKS' = Tail(q)
         /\ clicks_unread' = 0
         /\ main_led' = toggle(main_led)
         /\ blink_i' = 1
         /\ main_timer' = BLINK_MS
         /\ main_pc' = "blink"
    ELSE /\ main_pc' = "wait_for_button_click"
         /\ blink_i' = 0
         /\ UNCHANGED <<BUTTON_CLICKS, clicks_unread, main_led, main_timer>>

\* wait_for_button_click() returns in led_task of main.rs, woken by the click
WaitForButtonClick ==
    /\ main_pc = "wait_for_button_click"
    /\ BUTTON_CLICKS # <<>>
    /\ AwaitClick(BUTTON_CLICKS)
    /\ UNCHANGED <<button_level, btn_pc, btn_timer, edge_seen, high_seen, low_for,
                   pulse_detected, press_clicks, clicked, pulses, all_short,
                   all_alone, not_main>>

\* The 100 ms timer expired: the next iteration toggles the output and starts
\* the timer again; after the 6th, back to wait_for_button_click()
BlinkTimer ==
    /\ main_pc = "blink"
    /\ main_timer = 0
    /\ IF blink_i < BLINK_TOGGLES
       THEN /\ main_led' = toggle(main_led)
            /\ blink_i' = blink_i + 1
            /\ main_timer' = BLINK_MS
            /\ UNCHANGED <<main_pc, BUTTON_CLICKS, clicks_unread>>
       ELSE AwaitClick(BUTTON_CLICKS)
    /\ UNCHANGED <<button_level, btn_pc, btn_timer, edge_seen, high_seen, low_for,
                   pulse_detected, press_clicks, clicked, pulses, all_short,
                   all_alone, not_main>>

----------------------------------------------------------------------------
(* telegram.rs *)

\* Channel<_, String<32>, 8>
MESSAGES_QUEUE_CAP == 8
\* String<32>
MESSAGE_CAP == 32
\* send_telegram_message is called at most this many times
MaxCalls == 10

NoMessage == 0

\* Byte lengths of the texts passed to send_telegram_message
TextLens == {MESSAGE_CAP, MESSAGE_CAP + 1}

\* String::<32>::try_from(msg) is Ok
fits(len) == len <= MESSAGE_CAP

\* MESSAGES_QUEUE.try_send(owned)
queue_try_send_replacing(q, m) ==
    IF Len(q) < MESSAGES_QUEUE_CAP
    THEN [q |-> Append(q, m), ok |-> TRUE]
    ELSE [q |-> Append(Tail(q), m), ok |-> TRUE]
queue_try_send(q, m) ==
    IF Len(q) < MESSAGES_QUEUE_CAP
    THEN [q |-> Append(q, m), ok |-> TRUE]
    ELSE [q |-> q, ok |-> FALSE]

\* receiver.receive() on a non-empty channel
receive_newest(q) == [msg |-> q[Len(q)], rest |-> SubSeq(q, 1, Len(q) - 1)]
receive_peek(q) == [msg |-> Head(q), rest |-> q]
receive(q) == [msg |-> Head(q), rest |-> Tail(q)]

\* What the network exchange of telegram_send_message runs into
NetResults == {"ser_err", "req_err", "bad_utf8", "no_marker", "ok_true"}

\* telegram_send_message's result
telegram_send_message_lenient(net) ==
    CASE net = "ser_err"   -> "InvalidArguments"
      [] net = "req_err"   -> "RequestError"
      [] net = "bad_utf8"  -> "ResponseError"
      [] net = "no_marker" -> "Ok"
      [] net = "ok_true"   -> "Ok"
telegram_send_message(net) ==
    CASE net = "ser_err"   -> "InvalidArguments"
      [] net = "req_err"   -> "RequestError"
      [] net = "bad_utf8"  -> "ResponseError"
      [] net = "no_marker" -> "ResponseError"
      [] net = "ok_true"   -> "Ok"

\* send_telegram_message(msg), from any task: call n carries text n
SendTelegramMessage ==
    /\ ~panicked
    /\ calls < MaxCalls
    /\ calls' = calls + 1
    /\ \E len \in TextLens :
        IF fits(len)
        THEN LET r == queue_try_send(MESSAGES_QUEUE, calls + 1)
             IN  /\ MESSAGES_QUEUE' = r.q
                 /\ accepted' = IF r.ok THEN Append(accepted, calls + 1) ELSE accepted
                 /\ error_logs' = IF r.ok THEN error_logs
                                  ELSE Append(error_logs, calls + 1)
                 /\ UNCHANGED panicked
        ELSE /\ panicked' = TRUE
             /\ UNCHANGED <<MESSAGES_QUEUE, accepted, error_logs>>
    /\ UNCHANGED <<sender_pc, message, config_up, dequeued, attempts, outcomes,
                   last_sent, ever_up, signal_vars, guard_vars, not_telegram>>

\* The loop of task_telegram_sender from the receive on, run until the task
\* suspends: receive() and wait_config_up() return at once when they can
SenderTop_busy_before_wait(q, up, g) ==
    IF q = <<>>
    THEN [pc |-> "receive", msg |-> NoMessage, q |-> q, got |-> <<>>,
          started |-> <<>>, g |-> g]
    ELSE LET r == receive(q)
         IN  IF up
             THEN [pc |-> "sending", msg |-> r.msg, q |-> r.rest, got |-> <<r.msg>>,
                   started |-> <<r.msg>>, g |-> Status_new(g)]
             ELSE [pc |-> "wait_config_up", msg |-> r.msg, q |-> r.rest,
                   got |-> <<r.msg>>, started |-> <<>>, g |-> Status_new(g)]
SenderTop_discarding_when_down(q, up, g) ==
    IF q = <<>>
    THEN [pc |-> "receive", msg |-> NoMessage, q |-> q, got |-> <<>>,
          started |-> <<>>, g |-> g]
    ELSE LET r == receive(q)
         IN  IF up
             THEN [pc |-> "sending", msg |-> r.msg, q |-> r.rest, got |-> <<r.msg>>,
                   started |-> <<r.msg>>, g |-> Status_new(g)]
             ELSE [pc |-> "receive", msg |-> NoMessage, q |-> r.rest,
                   got |-> <<r.msg>>, started |-> <<>>, g |-> g]
SenderTop(q, up, g) ==
    IF q = <<>>
    THEN [pc |-> "receive", msg |-> NoMessage, q |-> q, got |-> <<>>,
          started |-> <<>>, g |-> g]
    ELSE LET r == receive(q)
         IN  IF up
             THEN [pc |-> "sending", msg |-> r.msg, q |-> r.rest, got |-> <<r.msg>>,
                   started |-> <<r.msg>>, g |-> Status_new(g)]
             ELSE [pc |-> "wait_config_up", msg |-> r.msg, q |-> r.rest,
                   got |-> <<r.msg>>, started |-> <<>>, g |-> g]

SenderResume(r) ==
    /\ sender_pc' = r.pc
    /\ message' = r.msg
    /\ MESSAGES_QUEUE' = r.q
    /\ dequeued' = dequeued \o r.got
    /\ attempts' = attempts \o r.started
    /\ SetGuard(r.g)

\* receiver.receive() returned a message
SenderReceive ==
    /\ ~panicked
    /\ sender_pc = "receive"
    /\ MESSAGES_QUEUE # <<>>
    /\ SenderResume(SenderTop(MESSAGES_QUEUE, config_up, GuardNow))
    /\ UNCHANGED <<config_up, calls, panicked, error_logs, accepted, outcomes,
                   last_sent, ever_up, not_telegram>>

\* stack.wait_config_up() returned: Status::new(), then the send is under way
SenderConfigUp ==
    /\ ~panicked
    /\ sender_pc = "wait_config_up"
    /\ config_up
    /\ sender_pc' = "sending"
    /\ attempts' = Append(attempts, message)
    /\ SetGuard(Status_new(GuardNow))
    /\ UNCHANGED <<MESSAGES_QUEUE, message, config_up, calls, panicked, error_logs,
                   accepted, dequeued, outcomes, last_sent, ever_up, not_telegram>>

\* telegram_send_message returned: success() or failure(), then the next
\* iteration of the loop
SenderSent ==
    /\ ~panicked
    /\ sender_pc = "sending"
    /\ \E net \in NetResults :
        LET g == IF telegram_send_message(net) = "Ok"
                 THEN Status_end(GuardNow, "success", set_result("Success"))
                 ELSE Status_end(GuardNow, "failure", set_result("Failure"))
        IN  /\ SenderResume(SenderTop(MESSAGES_QUEUE, config_up, g))
            /\ last_sent' = [net |-> net, declared |-> g.last]
    /\ outcomes' = Append(outcomes, message)
    /\ UNCHANGED <<config_up, calls, panicked, error_logs, accepted, ever_up,
                   not_telegram>>

\* The network stack gets, or loses, its IP configuration
NetConfigUp ==
    /\ ~panicked
    /\ ~config_up
    /\ config_up' = TRUE
    /\ ever_up' = TRUE
    /\ UNCHANGED <<MESSAGES_QUEUE, sender_pc, message, calls, panicked, error_logs,
                   accepted, dequeued, attempts, outcomes, last_sent, signal_vars,
                   guard_vars, not_telegram>>

NetConfigDown ==
    /\ ~panicked
    /\ config_up
    /\ config_up' = FALSE
    /\ UNCHANGED <<MESSAGES_QUEUE, sender_pc, message, calls, panicked, error_logs,
                   accepted, dequeued, attempts, outcomes, last_sent, ever_up,
                   signal_vars, guard_vars, not_telegram>>

----------------------------------------------------------------------------
(* wifi.rs *)

\* Timer::after(Duration::from_secs(5)) after the disconnect event
COOLDOWN_SECS == 5
\* Timer::after(Duration::from_secs(5)) after a failed connect
RETRY_SECS == 5

\* wifi::WifiStaState, as far as the supervisor tells its values apart
WifiStaState == {"Invalid", "Started", "Connected", "Disconnected"}

\* The match in the argument of set_led_state
status_of(st) == IF st = "Connected" THEN "PresenceBlink" ELSE "PatientBlink"

\* matches!(controller.is_started(), Ok(true))
is_started(st) == st \in {"Started", "Connected", "Disconnected"}

\* The Err arm of the match on connect_async: warn, then Timer::after(5 s)
AfterConnectErr_no_wait == [pc |-> "backoff", timer |-> 0]
AfterConnectErr == [pc |-> "backoff", timer |-> RETRY_SECS]

\* After wait_for_event(StaDisconnected): Timer::after(5 s)
AfterDisconnect == [pc |-> "cooldown", timer |-> COOLDOWN_SECS]

\* controller.connect_async() is called: it forgets the pending StaConnected
\* and StaDisconnected events, and the task suspends in it
CallConnect ==
    /\ sup_pc' = "connecting"
    /\ disconnect_event' = FALSE
    /\ since_connect' = 0
    /\ connects' = Min(connects + 1, MaxCount)

\* unwrap() of an Err: the panic handler takes over
Panic(call) ==
    /\ panicked' = TRUE
    /\ start_failure' = call
    /\ UNCHANGED <<sup_pc, disconnect_event, since_connect, connects>>

\* Step 2 of the loop, wifi.rs:120-137, up to the next await: if the controller
\* is not started, set_config(..).unwrap() and start_async(); else connect_async()
StartOrConnect ==
    IF is_started(sta_state)
    THEN CallConnect /\ UNCHANGED <<panicked, start_failure>>
    ELSE \E set_config_ok \in BOOLEAN :
            IF set_config_ok
            THEN /\ sup_pc' = "starting"
                 /\ UNCHANGED <<disconnect_event, since_connect, connects,
                                panicked, start_failure>>
            ELSE Panic("set_config")

\* Top of the loop: set_led_state(match wifi::sta_state() {..})
SupReport ==
    /\ ~panicked
    /\ sup_pc = "report"
    /\ set_led_state(status_of(sta_state))
    /\ reported' = status_of(sta_state)
    /\ sup_pc' = "check"
    /\ UNCHANGED <<sta_state, sup_timer, disconnect_event, last_connect,
                   always_failed, since_connect, since_lost, connects,
                   start_failure, panicked, not_wifi>>

\* `if wifi::sta_state() == Connected`: a second read of the station state, which
\* the radio driver's thread may have changed since the first.  Connected: on
\* to wait_for_event(StaDisconnected); else on to step 2, where connect_async()
\* forgets a pending event
SupCheck ==
    /\ ~panicked
    /\ sup_pc = "check"
    /\ IF sta_state = "Connected"
       THEN /\ sup_pc' = "wait_for_event"
            /\ UNCHANGED <<disconnect_event, since_connect, connects, panicked,
                           start_failure>>
       ELSE StartOrConnect
    /\ UNCHANGED <<sta_state, sup_timer, reported, last_connect, always_failed,
                   since_lost, signal_vars, not_wifi>>

\* controller.wait_for_event(StaDisconnected) is called: it forgets a pending
\* event, one the driver's thread raised since the read of SupCheck included,
\* and the task suspends until the next one
SupWaitForEvent ==
    /\ ~panicked
    /\ sup_pc = "wait_for_event"
    /\ disconnect_event' = FALSE
    /\ sup_pc' = "wait_disconnected"
    /\ UNCHANGED <<sta_state, sup_timer, reported, last_connect, always_failed,
                   since_connect, since_lost, connects, start_failure, panicked,
                   signal_vars, not_wifi>>

\* wait_for_event(StaDisconnected) returned: Timer::after(5 s)
SupDisconnected ==
    /\ ~panicked
    /\ sup_pc = "wait_disconnected"
    /\ disconnect_event
    /\ disconnect_event' = FALSE
    /\ sup_pc' = AfterDisconnect.pc
    /\ sup_timer' = AfterDisconnect.timer
    /\ UNCHANGED <<sta_state, reported, last_connect, always_failed, since_connect,
                   since_lost, connects, start_failure, panicked, signal_vars,
                   not_wifi>>

\* The cooldown's timer expired: on to step 2
SupCooldownOver ==
    /\ ~panicked
    /\ sup_pc = "cooldown"
    /\ sup_timer = 0
    /\ StartOrConnect
    /\ UNCHANGED <<sta_state, sup_timer, reported, last_connect, always_failed,
                   since_lost, signal_vars, not_wifi>>

\* controller.start_async().await.unwrap(), then connect_async()
SupStarted ==
    /\ ~panicked
    /\ sup_pc = "starting"
    /\ \E start_ok \in BOOLEAN :
        IF start_ok
        THEN /\ sta_state' = "Started"
             /\ CallConnect
             /\ UNCHANGED <<panicked, start_failure>>
        ELSE /\ Panic("start")
             /\ UNCHANGED sta_state
    /\ UNCHANGED <<sup_timer, reported, last_connect, always_failed, since_lost,
                   signal_vars, not_wifi>>

\* controller.connect_async() returned.  Ok: log the rssi, next iteration.
\* Err: warn, Timer::after(5 s)
SupConnectDone ==
    /\ ~panicked
    /\ sup_pc = "connecting"
    /\ \E connect_ok \in BOOLEAN :
        IF connect_ok
        THEN /\ sta_state' = "Connected"
             /\ last_connect' = "ok"
             /\ always_failed' = FALSE
             /\ sup_pc' = "report"
             /\ UNCHANGED sup_timer
        ELSE /\ sta_state' = "Disconnected"
             /\ last_connect' = "err"
             /\ sup_pc' = AfterConnectErr.pc
             /\ sup_timer' = AfterConnectErr.timer
             /\ UNCHANGED always_failed
    /\ UNCHANGED <<disconnect_event, reported, since_connect, since_lost, connects,
                   start_failure, panicked, signal_vars, not_wifi>>

\* The timer after the failed connect expired: next iteration
SupBackoffOver ==
    /\ ~panicked
    /\ sup_pc = "backoff"
    /\ sup_timer = 0
    /\ sup_pc' = "report"
    /\ UNCHANGED <<sta_state, sup_timer, disconnect_event, reported, last_connect,
                   always_failed, since_connect, since_lost, connects,
                   start_failure, panicked, signal_vars, not_wifi>>

\* The radio driver loses the link: the station state changes and the
\* StaDisconnected event is raised, at any point of the supervisor's code
LinkDown ==
    /\ ~panicked
    /\ sta_state = "Connected"
    /\ sta_state' = "Disconnected"
    /\ disconnect_event' = TRUE
    /\ since_lost' = 0
    /\ UNCHANGED <<sup_pc, sup_timer, reported, last_connect, always_failed,
                   since_connect, connects, start_failure, panicked, signal_vars,
                   not_wifi>>

\* 1 s passes
WifiTick ==
    /\ ~panicked
    /\ sup_timer' = IF sup_timer > 0 THEN sup_timer - 1 ELSE 0
    /\ since_connect' = Min(since_connect + 1, RETRY_SECS)
    /\ since_lost' = Min(since_lost + 1, COOLDOWN_SECS)
    /\ UNCHANGED <<sta_state, sup_pc, disconnect_event, reported, last_connect,
                   always_failed, connects, start_failure, panicked, signal_vars,
                   not_wifi>>

\* task_report_network_state from the top of its loop, run until it suspends:
\* set_led_state(PatientBlink), then wait_config_up(), which returns at once when
\* the configuration is up; then config_v4() is Some, set_led_state(PresenceBlink)
\* and wait_config_down().  The statuses set, in order, and where the task waits
ReporterTop(up) ==
    IF up
    THEN [pc |-> "wait_config_down", sets |-> <<"PatientBlink", "PresenceBlink">>]
    ELSE [pc |-> "wait_config_up", sets |-> <<"PatientBlink">>]

\* set_led_state for each status of `sets`, in order (one or two of them)
SetLedStates(sets) ==
    LET n == Len(sets)
    IN  /\ LED_STATE' = signal(signal(LED_STATE, sets[1]), sets[n])
        /\ last_set_persistent' = sets[n]
        /\ last_write' = sets[n]
        /\ writes_unread' = IF n = 1 THEN one_more(writes_unread)
                            ELSE one_more(one_more(writes_unread))

\* The reporter's first poll
ReporterStart ==
    /\ ~panicked
    /\ rep_pc = "start"
    /\ rep_pc' = ReporterTop(config_up).pc
    /\ SetLedStates(ReporterTop(config_up).sets)
    /\ UNCHANGED not_reporter

\* stack.wait_config_up() returned: config_v4() is Some, set_led_state(
\* PresenceBlink), then wait_config_down()
ReporterConfigUp ==
    /\ ~panicked
    /\ rep_pc = "wait_config_up"
    /\ config_up
    /\ rep_pc' = "wait_config_down"
    /\ SetLedStates(<<"PresenceBlink">>)
    /\ UNCHANGED not_reporter

\* stack.wait_config_down() returned: next iteration of the loop
ReporterConfigDown ==
    /\ ~panicked
    /\ rep_pc = "wait_config_down"
    /\ ~config_up
    /\ rep_pc' = ReporterTop(config_up).pc
    /\ SetLedStates(ReporterTop(config_up).sets)
    /\ UNCHANGED not_reporter

----------------------------------------------------------------------------
InitLed ==
    /\ LED_STATE = None
    /\ current_state = "PatientBlink"
    /\ persistent_state = "PatientBlink"
    /\ pattern = PatternOf("PatientBlink")
    /\ led_pc = "init"
    /\ phase = 0
    /\ led = FALSE
    /\ elapsed = 0
    /\ late = 0
    /\ led_log = <<>>
    /\ last_set_persistent = "PatientBlink"
    /\ last_write = None
    /\ writes_unread = 0
    /\ guard = "none"
    /\ guard_end = "none"
    /\ guard_writes = <<>>

InitButton ==
    /\ button_level \in {"high", "low"}
    /\ btn_pc = "init"
    /\ btn_timer = 0
    /\ edge_seen = FALSE
    /\ high_seen = FALSE
    /\ BUTTON_CLICKS = <<>>
    /\ low_for = 0
    /\ pulse_detected = FALSE
    /\ press_clicks = 0
    /\ clicks_unread = 0
    /\ clicked = FALSE
    /\ pulses = 0
    /\ all_short = TRUE
    /\ all_alone = TRUE

InitMain ==
    /\ main_pc = "wait_for_button_click"
    /\ main_led = "High"
    /\ blink_i = 0
    /\ main_timer = 0

InitTelegram ==
    /\ MESSAGES_QUEUE = <<>>
    /\ sender_pc = "receive"
    /\ message = NoMessage
    /\ config_up = FALSE
    /\ calls = 0
    /\ panicked = FALSE
    /\ error_logs = <<>>
    /\ accepted = <<>>
    /\ dequeued = <<>>
    /\ attempts = <<>>
    /\ outcomes = <<>>
    /\ last_sent = [net |-> "none", declared |-> "none"]
    /\ ever_up = FALSE

InitWifi ==
    /\ sta_state = "Invalid"
    /\ sup_pc = "report"
    /\ sup_timer = 0
    /\ disconnect_event = FALSE
    /\ reported = None
    /\ last_connect = "none"
    /\ always_failed = TRUE
    /\ since_connect = RETRY_SECS
    /\ since_lost = COOLDOWN_SECS
    /\ connects = 0
    /\ start_failure = "none"
    /\ rep_pc = "start"

Init == InitLed /\ InitButton /\ InitMain /\ InitTelegram /\ InitWifi

NextLed ==
    \/ LedStart
    \/ LedTimer
    \/ LedSignal
    \/ LedHoldTimer
    \/ SetLedState
    \/ StatusNew
    \/ StatusSuccess
    \/ StatusFailure
    \/ StatusDrop

SpecLed == Init /\ [][NextLed]_vars

\* The tasks main.rs spawns, with the input and the clock
NextButton ==
    \/ InputFalls
    \/ InputRises
    \/ Tick
    \/ BtnStart
    \/ BtnEdge
    \/ BtnSample
    \/ BtnRearm
    \/ BtnWaitForHigh
    \/ BtnReleased
    \/ WaitForButtonClick
    \/ BlinkTimer

SpecButton == Init /\ [][NextButton]_vars

NextTelegram ==
    \/ SendTelegramMessage
    \/ SenderReceive
    \/ SenderConfigUp
    \/ SenderSent
    \/ NetConfigUp
    \/ NetConfigDown

SpecTelegram == Init /\ [][NextTelegram]_vars

NextWifi ==
    \/ SupReport
    \/ SupCheck
    \/ SupWaitForEvent
    \/ SupDisconnected
    \/ SupCooldownOver
    \/ SupStarted
    \/ SupConnectDone
    \/ SupBackoffOver
    \/ LinkDown
    \/ WifiTick

SpecWifi == Init /\ [][NextWifi]_vars

\* The executor polls a woken task, the clock advances, and the controller's
\* start_async and connect_async complete
SpecWifiFair ==
    /\ SpecWifi
    /\ WF_vars(SupReport)
    /\ WF_vars(SupCheck)
    /\ WF_vars(SupWaitForEvent)
    /\ WF_vars(SupDisconnected)
    /\ WF_vars(SupCooldownOver)
    /\ WF_vars(SupStarted)
    /\ WF_vars(SupConnectDone)
    /\ WF_vars(SupBackoffOver)
    /\ WF_vars(WifiTick)

\* The status writers of wifi.rs with the network stack and the render loop
NextNet ==
    \/ NextWifi
    \/ ReporterStart
    \/ ReporterConfigUp
    \/ ReporterConfigDown
    \/ NetConfigUp
    \/ NetConfigDown
    \/ LedStart
    \/ LedTimer
    \/ LedSignal

SpecNet == Init /\ [][NextNet]_vars

\* The firmware of bin/main.rs is NextButton: it spawns task_button_clicks and
\* its own led_task.  The other tasks are the library's, for an application to
\* start: led_task of led.rs, task_telegram_sender and start_wifi
Next == NextLed \/ NextButton \/ NextTelegram \/ NextNet

Spec == Init /\ [][Next]_vars

----------------------------------------------------------------------------
(* Properties of the outcome guard and of the render loop, under SpecLed *)

Terminal(how) == IF how = "success" THEN "Success" ELSE "Failure"

\* The render loop read the signal in this step (nothing else empties the slot)
LedReads == LED_STATE # None /\ LED_STATE' = None

HoldEnds == led_pc = "hold" /\ led_pc' # "hold"

\* C1: over a guard's lifetime exactly one terminal status is set: success()
\* sets Success only, failure() sets Failure only, and a guard dropped without
\* either call sets Failure exactly once; a live guard has set none yet.
C1_ExactlyOneTerminalStatus ==
    /\ guard = "live" => guard_writes = <<"RapidBlink">>
    /\ guard = "done" => guard_writes = <<"RapidBlink", Terminal(guard_end)>>

C1_Witness ==
    /\ guard = "done"
    /\ guard_end = "drop"
    /\ guard_writes = <<"RapidBlink", "Failure">>

\* C2 (as claimed): a Success or Failure that a guard has set stays in the signal
\* until the running render loop reads it, whatever is set afterwards, and once
\* read it stays the current status until its hold has been rendered.
C2_OutcomeAlwaysShown ==
    [][/\ (/\ led_pc # "init"
           /\ guard = "done"
           /\ LED_STATE = Terminal(guard_end)
           /\ LED_STATE' # LED_STATE)
          => (LedReads /\ current_state' = LED_STATE)
       /\ (current_state \in Outcome /\ current_state' # current_state)
          => HoldEnds]_vars

\* C3 (as claimed): the status restored after a hold is the last persistent
\* status that was passed to set_led_state before the hold began (the initial
\* PatientBlink if none was).
C3_RevertsToLastSetPersistent ==
    [][(led_pc # "hold" /\ led_pc' = "hold")
          => persistent_state' = last_set_persistent]_vars

\* C3 (amended): when a hold ends, current_state becomes persistent_state, which
\* is PresenceBlink or PatientBlink and is the status whose pattern the loop
\* selected last among these two: a persistent status the loop never had as its
\* current status at a pattern selection is not restored.
C3_RevertsToPersistentState ==
    /\ persistent_state \in Persistent
    /\ (current_state \in Persistent /\ pattern = PatternOf(current_state))
          => persistent_state = current_state
    /\ (led_log # <<>> /\ led_log[1].kind = "reverted")
          => /\ led_log[1].state = persistent_state
             /\ pattern = PatternOf(persistent_state)
             /\ led_pc = "blink"
             /\ Len(led_log) = 1 => (current_state = persistent_state /\ led)

C3_Witness ==
    /\ led_log = <<Reverted("PresenceBlink")>>
    /\ current_state = "PresenceBlink"
    /\ last_set_persistent = "PatientBlink"

\* C4 (as claimed): once Success or Failure is the loop's current status, the
\* loop neither reads the signal nor changes its current status until the hold
\* of that status ends.
C4_AdoptedOutcomeIsHeld ==
    [][(current_state \in Outcome /\ (LedReads \/ current_state' # current_state))
          => HoldEnds]_vars

\* The hold itself is not interruptible: while the loop waits on a timer of the
\* hold, a step either leaves the loop's status and pattern alone, reading
\* nothing, or ends the hold
HoldRendersUninterrupted ==
    [][led_pc = "hold"
          => \/ HoldEnds
             \/ /\ current_state' = current_state
                /\ pattern' = pattern
                /\ persistent_state' = persistent_state
                /\ ~LedReads]_vars

\* C5 (as claimed): when the loop takes a new status from the signal while it
\* shows a non-holding status, what it shows next is the on-phase of the new
\* status's pattern.
C5_PreemptionRestartsPattern ==
    [][(led_pc = "blink" /\ LedReads)
          => (pattern' = PatternOf(current_state') /\ phase' = 0 /\ led')]_vars

\* C14: persistent_state is always PresenceBlink or PatientBlink; it changes only
\* to a persistent status the loop has as its current status when it selects a
\* pattern (the status it had before the step, or the one it takes from the
\* signal in the step), so taking RapidBlink, ViolentBlink, Success or Failure
\* never changes it; and the status a hold reverts to is a persistent one.
C14_PersistentStateIsPersistent ==
    /\ [](persistent_state \in Persistent)
    /\ [](\A i \in 1..Len(led_log) :
            led_log[i].kind = "reverted" => led_log[i].state \in Persistent)
    /\ [][persistent_state' # persistent_state
            => /\ persistent_state' \in Persistent
               /\ pattern' = PatternOf(persistent_state')
               /\ \/ persistent_state' = current_state
                  \/ LedReads /\ persistent_state' = LED_STATE]_vars

C14_Witness ==
    /\ led_pc = "hold"
    /\ current_state = "Failure"
    /\ persistent_state = "PresenceBlink"
    /\ guard_writes = <<"RapidBlink", "Failure">>

\* C15: the signal is one slot, last write wins.  A write always goes through
\* and leaves the written value in the slot; the slot is empty exactly when
\* nothing was written since the last read, and otherwise holds the last value
\* written, however many writes there were; a read hands the loop that value
\* and empties the slot, so the next read needs a new write.
C15_SingleSlotLastWriteWins ==
    /\ []((LED_STATE = None) <=> (writes_unread = 0))
    /\ [](LED_STATE # None => LED_STATE = last_write)
    /\ [](ENABLED SetLedState)
    /\ [][(last_write' # last_write \/ writes_unread' > writes_unread)
            => LED_STATE' = last_write']_vars
    /\ [][LedReads => /\ current_state' = LED_STATE
                      /\ led_log' # <<>>
                      /\ led_log'[Len(led_log')] = Changed(LED_STATE)
                      /\ writes_unread' = 0]_vars

C15_Witness ==
    /\ writes_unread >= 2
    /\ LED_STATE = "PresenceBlink"
    /\ last_write = "PresenceBlink"
    /\ guard = "done"
    /\ led_pc = "blink"

----------------------------------------------------------------------------
(* Properties of the debounced input source, under SpecButton *)

\* The task has nothing to do until the input changes: it is not ready to be
\* polled and no settle timer is running
BtnIdle == ~BtnRunnable /\ btn_pc # "settle"

\* C6: a press that is still low 20 ms after its falling edge gets exactly one
\* try_send, however long it is held: once the input has been low for more
\* than 20 ms since a falling edge and the task has nothing left to do, one
\* event was attempted for this press and the task waits for the release; no
\* low interval gets a second one; and a pulse whose falling edge the task
\* detected gets none while it is younger than 20 ms.
C6_OneClickPerPress ==
    /\ press_clicks <= 1
    /\ (button_level = "low" /\ pulses >= 1 /\ low_for > DEBOUNCE_MS /\ BtnIdle)
          => (press_clicks = 1 /\ btn_pc = "wait_for_high")
    /\ (button_level = "low" /\ pulse_detected /\ low_for < DEBOUNCE_MS)
          => press_clicks = 0

\* C7 (as claimed): after any train of low pulses that were all shorter than
\* 20 ms, no click event has been attempted.
C7_ShortPulsesNeverClick ==
    (all_short /\ button_level = "high") => ~clicked

\* C7 (amended): low pulses all shorter than 20 ms produce no click event when
\* no falling edge comes between a falling edge the task detected and the
\* sample the task takes for it.
C7_LoneShortPulsesNeverClick ==
    all_alone => ~clicked

C7_Witness ==
    /\ all_alone
    /\ pulses >= 2
    /\ button_level = "high"
    /\ low_for > 0
    /\ pulse_detected
    /\ btn_pc = "wait_for_falling_edge"
    /\ ~edge_seen
    /\ ~clicked

\* C8: the click mailbox holds at most one event: it holds one exactly when a
\* click was attempted since the last receive, however many were, and after an
\* attempt the task goes on to wait for the release, never for the mailbox.
C8_AtMostOnePendingClick ==
    /\ Len(BUTTON_CLICKS) <= 1
    /\ Len(BUTTON_CLICKS) = Min(clicks_unread, 1)
    /\ (button_level = "low" /\ press_clicks >= 1)
          => btn_pc \in {AfterClick.pc, "wait_for_high"}

C8_Witness ==
    /\ clicks_unread >= 2
    /\ Len(BUTTON_CLICKS) = 1
    /\ btn_pc = "wait_for_high"

----------------------------------------------------------------------------
(* Properties of the outbound mailbox and its sender, under SpecTelegram *)

IsPrefix(a, b) == Len(a) <= Len(b) /\ SubSeq(b, 1, Len(a)) = a

\* The texts of calls from..to, in call order
CallsFromTo(from, to) == [i \in 1..(to - from + 1) |-> from + i - 1]

\* C9: the mailbox never holds more than 8 messages; a call that finds it full
\* leaves its content and order as they were and logs the dropped text, so the
\* mailbox is always the accepted texts not yet received, in order, and after 9
\* or more calls with nothing received it holds exactly the first 8, every
\* later text being logged as dropped.
C9_FullMailboxDropsNewest ==
    /\ Len(MESSAGES_QUEUE) <= MESSAGES_QUEUE_CAP
    /\ accepted = dequeued \o MESSAGES_QUEUE
    /\ ~panicked => Len(accepted) + Len(error_logs) = calls
    /\ (dequeued = <<>> /\ calls > MESSAGES_QUEUE_CAP)
          => /\ MESSAGES_QUEUE = CallsFromTo(1, MESSAGES_QUEUE_CAP)
             /\ ~panicked => error_logs = CallsFromTo(MESSAGES_QUEUE_CAP + 1, calls)

C9_Witness ==
    /\ dequeued = <<>>
    /\ ~panicked
    /\ calls = MESSAGES_QUEUE_CAP + 2
    /\ Len(MESSAGES_QUEUE) = MESSAGES_QUEUE_CAP
    /\ Len(error_logs) = 2

\* C10: the sender receives the accepted messages in the order of their
\* acceptance and hands them to the send in that order; it holds at most one
\* message, and receives the next one only once the outcome of the one before
\* has been declared.
C10_FifoOneInFlight ==
    /\ IsPrefix(dequeued, accepted)
    /\ IsPrefix(attempts, dequeued)
    /\ IsPrefix(outcomes, attempts)
    /\ Len(dequeued) - Len(outcomes) \in {0, 1}
    /\ Len(dequeued) - Len(attempts) \in {0, 1}
    /\ message = (IF Len(dequeued) > Len(outcomes)
                  THEN dequeued[Len(dequeued)] ELSE NoMessage)
    /\ (sender_pc = "sending") = (Len(attempts) > Len(outcomes))
    /\ sender_pc = "sending" => guard = "live"
    /\ sender_pc # "sending" => guard # "live"

C10_Witness ==
    /\ Len(outcomes) >= 2
    /\ sender_pc = "sending"
    /\ message = 3
    /\ Len(MESSAGES_QUEUE) >= 2
    /\ error_logs # <<>>

\* C16: the sender writes RapidBlink for a message only in the poll in which
\* wait_config_up returned for it (the configuration is up then), and next one
\* of Success and Failure: while it sends, its guard has written RapidBlink
\* only; otherwise the guard of the latest send has written RapidBlink and one
\* outcome (nothing before the first send); and while it waits for the
\* configuration it writes nothing.
C16_BusyThenOutcomeAfterLinkUp ==
    /\ [](sender_pc = "sending"
            => guard = "live" /\ guard_writes = <<"RapidBlink">>)
    /\ [](sender_pc # "sending"
            => IF outcomes = <<>>
               THEN guard = "none" /\ guard_writes = <<>> /\ LED_STATE = None
               ELSE /\ guard = "done"
                    /\ Len(guard_writes) = 2
                    /\ guard_writes[1] = "RapidBlink"
                    /\ guard_writes[2] \in Outcome
                    /\ LED_STATE = guard_writes[2])
    /\ [][Len(attempts') > Len(attempts)
            => /\ config_up
               /\ attempts' = Append(attempts, message')
               /\ sender_pc' = "sending"
               /\ LED_STATE' = "RapidBlink"]_vars
    /\ [][(sender_pc = "wait_config_up" /\ sender_pc' = "wait_config_up")
            => UNCHANGED <<signal_vars, guard_vars>>]_vars
    /\ [][guard_writes' # guard_writes
            => \/ Len(attempts') > Len(attempts)
               \/ Len(outcomes') > Len(outcomes)]_vars

C16_Witness ==
    /\ sender_pc = "wait_config_up"
    /\ ever_up
    /\ ~config_up
    /\ Len(dequeued) = Len(outcomes) + 1
    /\ guard_writes = <<"RapidBlink", "Success">>
    /\ LED_STATE = "Success"

\* C17 (as claimed): while the configuration has never been up and the sender
\* holds the message it received, the accepted texts are among the first 9 and
\* no text of the first 9 is dropped.
C17_FirstNineAccepted ==
    (~ever_up /\ dequeued # <<>>)
       => /\ \A i \in 1..Len(accepted) : accepted[i] <= MESSAGES_QUEUE_CAP + 1
          /\ \A i \in 1..Len(error_logs) : error_logs[i] > MESSAGES_QUEUE_CAP + 1

\* C17 (amended): while the configuration has never been up, the sender receives
\* at most one message, the first accepted one, and keeps it without starting a
\* send, writing a status or declaring an outcome; the mailbox holds at most 8
\* more, so at most 9 texts are accepted in all.  They are the first 9, and
\* every later one is dropped, if none of the first 9 found the mailbox full,
\* that is if the sender received the first message before the 9th call.
C17_OutageHoldsOneQueuesEight ==
    ~ever_up
       => /\ attempts = <<>> /\ outcomes = <<>>
          /\ guard = "none" /\ LED_STATE = None
          /\ Len(dequeued) <= 1
          /\ dequeued # <<>> => /\ sender_pc = "wait_config_up"
                                /\ message = dequeued[1]
                                /\ message = accepted[1]
          /\ Len(MESSAGES_QUEUE) <= MESSAGES_QUEUE_CAP
          /\ Len(accepted) <= MESSAGES_QUEUE_CAP + 1
          /\ (~panicked /\ \A i \in 1..Len(error_logs) :
                               error_logs[i] > MESSAGES_QUEUE_CAP + 1)
                => /\ accepted = CallsFromTo(1, Min(calls, MESSAGES_QUEUE_CAP + 1))
                   /\ error_logs = CallsFromTo(MESSAGES_QUEUE_CAP + 2, calls)

C17_Witness ==
    /\ ~ever_up
    /\ ~panicked
    /\ calls = MESSAGES_QUEUE_CAP + 2
    /\ message = 1
    /\ Len(MESSAGES_QUEUE) = MESSAGES_QUEUE_CAP
    /\ accepted = CallsFromTo(1, MESSAGES_QUEUE_CAP + 1)
    /\ error_logs = <<MESSAGES_QUEUE_CAP + 2>>

\* C18: no text is handed to the send twice or placed in the mailbox twice;
\* only accepted texts are sent, a text logged as dropped never is; and a text
\* whose outcome was declared is neither held by the sender nor in the mailbox.
C18_AtMostOnceSend ==
    /\ \A i, j \in 1..Len(attempts) : attempts[i] = attempts[j] => i = j
    /\ \A i, j \in 1..Len(accepted) : accepted[i] = accepted[j] => i = j
    /\ \A i \in 1..Len(attempts) : \E j \in 1..Len(accepted) : accepted[j] = attempts[i]
    /\ \A i \in 1..Len(attempts) :
          \A j \in 1..Len(error_logs) : error_logs[j] # attempts[i]
    /\ \A i \in 1..Len(outcomes) :
          /\ outcomes[i] # message
          /\ \A j \in 1..Len(MESSAGES_QUEUE) : MESSAGES_QUEUE[j] # outcomes[i]

C18_Witness ==
    /\ sender_pc = "receive"
    /\ MESSAGES_QUEUE = <<>>
    /\ Len(outcomes) >= 2
    /\ Len(attempts) = Len(accepted)
    /\ error_logs # <<>>
    /\ last_sent.declared = "Failure"

\* C19: the status declared for a send is Success exactly when the exchange ran
\* to the end and the response text contains the marker, and Failure for each
\* other result; the guard ended by success() or failure() accordingly.
C19_SuccessIffOkMarker ==
    /\ (last_sent.net = "none") <=> (outcomes = <<>>)
    /\ last_sent.net # "none"
          => /\ last_sent.net \in NetResults
             /\ last_sent.declared \in Outcome
             /\ (last_sent.declared = "Success") <=> (last_sent.net = "ok_true")
             /\ sender_pc # "sending"
                   => /\ guard_end = (IF last_sent.net = "ok_true"
                                      THEN "success" ELSE "failure")
                      /\ LED_STATE = last_sent.declared

C19_Witness ==
    /\ last_sent = [net |-> "no_marker", declared |-> "Failure"]
    /\ sender_pc = "wait_config_up"
    /\ LED_STATE = "Failure"

----------------------------------------------------------------------------
(* Properties of the connection supervisor, under SpecWifi and SpecWifiFair *)

\* The supervisor calls connect_async in this step
ConnectCalled == sup_pc # "connecting" /\ sup_pc' = "connecting"

\* C11: as long as every connect fails (and set_config and start_async do not),
\* the supervisor does not panic, a connect that follows a failed one is called
\* at least 5 s after it, and connect is called again and again for ever.
C11_FailingConnectRetriedForever ==
    /\ [](start_failure = "none" => ~panicked)
    /\ [][(ConnectCalled /\ last_connect = "err")
            => since_connect >= RETRY_SECS]_vars
    /\ \/ []<>(sup_pc = "connecting")
       \/ <>(~always_failed \/ start_failure # "none")

C11_Witness ==
    /\ always_failed
    /\ ~panicked
    /\ connects >= 3
    /\ last_connect = "err"
    /\ sup_pc = "connecting"
    /\ since_connect = 0
    /\ LED_STATE = "PatientBlink"

\* C12 (as claimed): a connect that follows a successful one, the link having
\* been lost since, is called no sooner than 5 s after the loss.
C12_ReconnectWaitsCooldown ==
    [][(ConnectCalled /\ last_connect = "ok")
          => since_lost >= COOLDOWN_SECS]_vars

\* C13 (as claimed): after set_config or start_async has failed the firmware
\* has not panicked: the supervisor is still running.
C13_StartFailureIsSurvived ==
    start_failure # "none" => ~panicked

\* C20 (as claimed): the step at the top of an iteration sets the status that
\* matches the station state, PresenceBlink for Connected and PatientBlink
\* otherwise, and the branch taken next is the wait for the disconnect event
\* exactly when the status set was PresenceBlink.
C20_BranchMatchesStatus ==
    [][/\ (sup_pc = "report" /\ sup_pc' # "report")
          => /\ LED_STATE' = status_of(sta_state)
             /\ reported' = LED_STATE'
       /\ (sup_pc = "check" /\ sup_pc' # "check")
          => ((sup_pc' = "wait_for_event") <=> (reported = "PresenceBlink"))]_vars

\* The link is associated and nothing is left to do until the network changes:
\* the supervisor waits for the disconnect event, the reporter waits for the
\* configuration to change, and the render loop has read the signal and shows
\* the pattern of its current status
Settled ==
    /\ ~panicked
    /\ sta_state = "Connected"
    /\ sup_pc = "wait_disconnected"
    /\ ~disconnect_event
    /\ rep_pc = (IF config_up THEN "wait_config_down" ELSE "wait_config_up")
    /\ led_pc = "blink"
    /\ LED_STATE = None
    /\ pattern = PatternOf(current_state)

\* C21 (as claimed): with the link associated, once the supervisor, the reporter
\* and the render loop have nothing left to do, the indicator shows
\* PatientBlink if the IP configuration is down and PresenceBlink if it is up.
C21_SettlesOnNetworkState ==
    Settled => current_state = (IF config_up THEN "PresenceBlink"
                                ELSE "PatientBlink")

----------------------------------------------------------------------------
(* send_telegram_message as a function of its text, under SpecTelegram *)

\* C22 (as claimed): every call of send_telegram_message returns, having placed
\* its text at the back of the mailbox or logged it as dropped, without a panic.
C22_EnqueueIsTotal ==
    [][calls' = calls + 1
          => /\ ~panicked'
             /\ \/ /\ accepted' = Append(accepted, calls')
                   /\ MESSAGES_QUEUE' = Append(MESSAGES_QUEUE, calls')
                   /\ error_logs' = error_logs
                \/ /\ error_logs' = Append(error_logs, calls')
                   /\ UNCHANGED <<accepted, MESSAGES_QUEUE>>]_vars

====
